---- MODULE Spec2Model ----
\* MikrodTech backend: the /chat relay and the speed-test routes
\* (download, upload, ping) of server.js, as state machines over the
\* requests in flight.  Strings are sequences of one-character strings.
EXTENDS Integers, Sequences, FiniteSets, TLC

\* ---------------------------------------------------------------- bounds
NumRequests == 2          \* request slots served concurrently
MaxQueryLen == 3          \* longest `size` query text given to the clamp
MaxStreamQueryLen == 2    \* longest `size` query text of a streamed download
MaxChunks == 3            \* most data events of one upload
MaxContentLen == 2        \* longest message / completion text, in tokens
RandSteps == 20000        \* Math.random() draws k / RandSteps, k < RandSteps

Requests == 1 .. NumRequests

\* ------------------------------------------------------ program constants
MB == 1024 * 1024
chunkSize == 128 * 1024
DownloadDefaultMB == 50
DownloadMinMB == 1
DownloadMaxMB == 200
UploadDefaultMB == 10
UploadMinMB == 1
UploadMaxMB == 100
PingSpread == 50
PingBase == 10

\* Default highWaterMark of a byte stream: 16 KiB before Node 20, 64 KiB
\* from Node 20 on.  The build runs on one of them.
HighWaterMarks == {16 * 1024, 64 * 1024}

Min(a, b) == IF a < b THEN a ELSE b
Max(a, b) == IF a > b THEN a ELSE b

RECURSIVE SumSeq(_)
SumSeq(s) == IF s = <<>> THEN 0 ELSE Head(s) + SumSeq(Tail(s))

\* All sequences over `chars` of length at most n.
StringsUpTo(chars, n) == UNION {[1 .. k -> chars] : k \in 0 .. n}

\* --------------------------------------------------------------- parseInt
Digits == {"0", "1", "2", "3", "4", "5", "6", "7", "8", "9"}
DigitVal(c) ==
  CASE c = "0" -> 0 [] c = "1" -> 1 [] c = "2" -> 2 [] c = "3" -> 3
    [] c = "4" -> 4 [] c = "5" -> 5 [] c = "6" -> 6 [] c = "7" -> 7
    [] c = "8" -> 8 [] c = "9" -> 9

\* A query parameter: absent (undefined) or a text.
AbsentQuery == [present |-> FALSE, text |-> <<>>]
TextQuery(t) == [present |-> TRUE, text |-> t]

\* String(undefined) is "undefined"; a text is itself.
ToStringArg(q) ==
  IF q.present THEN q.text
  ELSE <<"u", "n", "d", "e", "f", "i", "n", "e", "d">>

RECURSIVE SkipSpaces(_)
SkipSpaces(s) ==
  IF s # <<>> /\ Head(s) = " " THEN SkipSpaces(Tail(s)) ELSE s

\* The longest prefix of decimal digits of s, as [seen, val].
RECURSIVE DigitPrefix(_, _, _)
DigitPrefix(s, seen, acc) ==
  IF s # <<>> /\ Head(s) \in Digits
  THEN DigitPrefix(Tail(s), TRUE, 10 * acc + DigitVal(Head(s)))
  ELSE [seen |-> seen, val |-> acc]

\* parseInt(x): leading blanks, an optional sign, then decimal digits up to
\* the first other character; NaN when there is no digit.
ParseInt(q) ==
  LET s == SkipSpaces(ToStringArg(q))
      neg == s # <<>> /\ Head(s) = "-"
      body == IF s # <<>> /\ Head(s) \in {"-", "+"} THEN Tail(s) ELSE s
      d == DigitPrefix(body, FALSE, 0)
  IN IF d.seen THEN [nan |-> FALSE, val |-> IF neg THEN 0 - d.val ELSE d.val]
     ELSE [nan |-> TRUE, val |-> 0]

\* `x || dflt` on a number: NaN and 0 are falsy.
OrDefault(p, dflt) == IF p.nan \/ p.val = 0 THEN dflt ELSE p.val

\* Math.min(Math.max(parseInt(req.query.size) || dflt, lo), hi)
ClampSize(q, dflt, lo, hi) == Min(Max(OrDefault(ParseInt(q), dflt), lo), hi)

DownloadSizeMB(q) ==
  ClampSize(q, DownloadDefaultMB, DownloadMinMB, DownloadMaxMB)
UploadSizeMB(q) == ClampSize(q, UploadDefaultMB, UploadMinMB, UploadMaxMB)

\* Number.prototype.toFixed(2) of the exact value num / den >= 0: the
\* integer n with n / 100 nearest to it, the larger one on a tie, printed as
\* <<integer part, two decimals>>.
ToFixed2(num, den) ==
  LET n == (200 * num + den) \div (2 * den)
  IN <<n \div 100, n % 100>>
Hundredths(f) == 100 * f[1] + f[2]

\* ------------------------------------------------------------------ state
VARIABLES
  build,    \* which revision of server.js is deployed
  hwm,      \* the runtime's default stream highWaterMark
  dl,       \* dl[r]: the download request in slot r
  sent,     \* sent[c]: the `sent` counter bound by a download closure
  up,       \* up[r]: the upload request in slot r
  chunks,   \* chunks[c]: the `chunks` array bound by an upload closure
  chat,     \* the /chat request
  ping      \* the /api/speedtest/ping request

vars == <<build, hwm, dl, sent, up, chunks, chat, ping>>

\* src/server.js holds the chat and upload routes; src/unnamed/part_000 ends
\* with the full server (lines 134-336), whose chat handler differs.
Builds == {"server_js", "part_000"}

NoQuery == AbsentQuery

IdleDownload ==
  [pc |-> "idle", query |-> NoQuery, sizeMB |-> 0, totalBytes |-> 0,
   buffer |-> <<>>, ended |-> FALSE, flowing |-> FALSE, wire |-> 0,
   received |-> 0]

\* ------------------------------------------------- GET /api/speedtest/download
\* Faulty variant: `sent` declared at module level, shared by every request.
SentCellShared(r) == 1

\* `let sent = 0` is declared inside the handler: each request binds its own.
SentCell(r) == r

\* Faulty variant: `sent > totalBytes`.
ExhaustedOffByOne(sentNow, total) == sentNow > total

\* `if (sent >= totalBytes)`
Exhausted(sentNow, total) == sentNow >= total

\* Faulty variant: `randomBytes(totalBytes - sent)`, the whole body at once.
ChunkLengthWhole(sentNow, total) == total - sentNow

\* `Math.min(chunkSize, totalBytes - sent)`
ChunkLength(sentNow, total) == Min(chunkSize, total - sentNow)

\* Faulty variant: the `return` before push(null) is missing.
GeneratorReadNoReturn(g) ==
  LET len == Min(chunkSize, g.total - g.sent)
  IN [g EXCEPT !.ended = g.sent >= g.total \/ @, !.sent = @ + len,
               !.buffer = Append(@, len)]

\* The read() method of the Readable, on g = [sent, total, buffer, ended]:
\* push(null) once everything was sent, else push one chunk of random bytes.
GeneratorRead(g) ==
  IF Exhausted(g.sent, g.total)
  THEN [g EXCEPT !.ended = TRUE]
  ELSE LET len == ChunkLength(g.sent, g.total)
       IN [g EXCEPT !.sent = @ + len, !.buffer = Append(@, len)]

Gen(r) ==
  [sent |-> sent[SentCell(r)], total |-> dl[r].totalBytes,
   buffer |-> dl[r].buffer, ended |-> dl[r].ended]

BufferedBytes(r) == SumSeq(dl[r].buffer)

\* The handler: clamp the size, set the headers, build the stream, pipe it.
\* pipe() puts the stream in flowing mode.
DownloadStart(r, q) ==
  /\ build = "part_000"
  /\ dl[r].pc = "idle" /\ up[r].pc = "idle"
  /\ LET mb == DownloadSizeMB(q)
     IN dl' = [dl EXCEPT ![r] =
                 [IdleDownload EXCEPT !.pc = "streaming", !.query = q,
                                      !.sizeMB = mb, !.totalBytes = mb * MB,
                                      !.flowing = TRUE]]
  /\ sent' = [sent EXCEPT ![SentCell(r)] = 0]
  /\ UNCHANGED <<build, hwm, up, chunks, chat, ping>>

\* One stream.read() of the flowing stream, as pipe() drives it: read() is
\* called when the buffer would fall under the highWaterMark, the chunk at
\* the head of the buffer goes to res.write(), which returns false (and pipe
\* pauses the stream) when res holds a highWaterMark of unsent bytes; at the
\* end of the data 'end' is emitted and pipe ends the response.
DownloadRead(r) ==
  /\ dl[r].pc = "streaming" /\ dl[r].flowing
  /\ LET d == dl[r]
         n0 == IF d.buffer = <<>> THEN 0 ELSE Head(d.buffer)
         doRead == ~d.ended /\ (d.buffer = <<>> \/ BufferedBytes(r) - n0 < hwm)
         g == IF doRead THEN GeneratorRead(Gen(r)) ELSE Gen(r)
         n == IF g.buffer = <<>> THEN 0 ELSE Head(g.buffer)
         rest == IF g.buffer = <<>> THEN <<>> ELSE Tail(g.buffer)
         w == d.wire + n
         atEnd == rest = <<>> /\ g.ended
     IN /\ dl' = [dl EXCEPT ![r] =
                    [d EXCEPT !.buffer = rest, !.ended = g.ended, !.wire = w,
                              !.flowing = ~atEnd /\ w < hwm,
                              !.pc = IF atEnd THEN "ended" ELSE "streaming"]]
        /\ sent' = [sent EXCEPT ![SentCell(r)] = g.sent]
  /\ UNCHANGED <<build, hwm, up, chunks, chat, ping>>

\* The stream refills its buffer on the next tick while it holds less than
\* the highWaterMark (maybeReadMore), paused or not.
DownloadPrefetch(r) ==
  /\ dl[r].pc = "streaming" /\ ~dl[r].ended
  /\ BufferedBytes(r) < hwm
  /\ LET g == GeneratorRead(Gen(r))
     IN /\ dl' = [dl EXCEPT ![r].buffer = g.buffer, ![r].ended = g.ended]
        /\ sent' = [sent EXCEPT ![SentCell(r)] = g.sent]
  /\ UNCHANGED <<build, hwm, up, chunks, chat, ping>>

\* The client takes up to k bytes of what res holds; when res is drained the
\* paused stream flows again.
ClientRead(r, k) ==
  /\ dl[r].pc # "idle" /\ dl[r].wire > 0
  /\ LET d == dl[r]
         n == Min(k, d.wire)
     IN dl' = [dl EXCEPT ![r] =
                 [d EXCEPT !.wire = @ - n, !.received = @ + n,
                           !.flowing = IF d.pc = "streaming" /\ d.wire = n
                                       THEN TRUE ELSE @]]
  /\ UNCHANGED <<build, hwm, sent, up, chunks, chat, ping>>

\* --------------------------------------------------- POST /api/speedtest/upload
NoResponse == [status |-> 0, kind |-> "none", receivedMB |-> <<0, 0>>]

IdleUpload ==
  [pc |-> "idle", hint |-> NoQuery, sizeMB |-> 0, arrived |-> 0,
   response |-> NoResponse]

\* `const chunks = []` is declared inside the handler: each request binds
\* its own.
ChunksCell(r) == r

\* Sizes of the data events an upload delivers.
UploadChunkSizes == {1, chunkSize, MB}

\* Faulty variant: the size hint enforced as a cap.
UploadTotalBytesCapped(cs, hintMB) == Min(SumSeq(cs), hintMB * MB)

\* `Buffer.concat(chunks).length`; the size hint takes no part in it.
UploadTotalBytes(cs, hintMB) == SumSeq(cs)

\* `res.json({status: "ok", receivedMB: (totalBytes / (1024 * 1024)).toFixed(2)})`
UploadOk(totalBytes) ==
  [status |-> 200, kind |-> "ok", receivedMB |-> ToFixed2(totalBytes, MB)]

\* `res.status(500).json({error: "Upload test failed"})`, the catch block.
UploadFailed == [status |-> 500, kind |-> "error", receivedMB |-> <<0, 0>>]

\* The handler: read the size hint, bind an empty `chunks`, and register the
\* 'data' and 'end' listeners.  Nothing in the try block throws, so the catch
\* block is not entered.
UploadStart(r, q) ==
  /\ up[r].pc = "idle" /\ dl[r].pc = "idle"
  /\ up' = [up EXCEPT ![r] =
              [IdleUpload EXCEPT !.pc = "receiving", !.hint = q,
                                 !.sizeMB = UploadSizeMB(q)]]
  /\ chunks' = [chunks EXCEPT ![ChunksCell(r)] = <<>>]
  /\ UNCHANGED <<build, hwm, dl, sent, chat, ping>>

\* req.on("data"): `chunks.push(chunk)`.
UploadData(r, len) ==
  /\ up[r].pc = "receiving"
  /\ Len(chunks[ChunksCell(r)]) < MaxChunks
  /\ chunks' = [chunks EXCEPT ![ChunksCell(r)] = Append(@, len)]
  /\ up' = [up EXCEPT ![r].arrived = @ + len]
  /\ UNCHANGED <<build, hwm, dl, sent, chat, ping>>

\* req.on("end"): count the bytes and answer.
UploadEnd(r) ==
  /\ up[r].pc = "receiving"
  /\ up' = [up EXCEPT ![r].pc = "responded",
                      ![r].response =
                        UploadOk(UploadTotalBytes(chunks[ChunksCell(r)],
                                                  up[r].sizeMB))]
  /\ UNCHANGED <<build, hwm, dl, sent, chunks, chat, ping>>

\* The inbound stream errors or the client aborts before the end: the
\* request is destroyed, 'end' is never emitted, and the handler has
\* registered no 'error', 'aborted' or 'close' listener.
UploadAbort(r) ==
  /\ up[r].pc = "receiving"
  /\ up' = [up EXCEPT ![r].pc = "aborted"]
  /\ UNCHANGED <<build, hwm, dl, sent, chunks, chat, ping>>

\* ------------------------------------------------------------------ POST /chat
Fallback == <<"Sorry, I didn't quite catch that.">>
ValidationReply == <<"Please provide a valid message.">>
GenericReply == <<"Sorry, I'm having trouble responding right now.">>

MessageChars == {" ", "a"}
ContentTokens == {" ", "a", "<s>", "</s>"}

\* req.body.message: missing, a string, or a truthy value of another type.
Messages ==
  {[kind |-> "missing", text |-> <<>>], [kind |-> "other", text |-> <<>>]}
    \cup {[kind |-> "string", text |-> t] :
            t \in StringsUpTo(MessageChars, MaxContentLen)}

\* completion.choices?.[0]?.message?.content: absent, or a text.
Contents ==
  {AbsentQuery} \cup {TextQuery(t) : t \in StringsUpTo(ContentTokens, MaxContentLen)}

RECURSIVE TrimEnd(_)
TrimEnd(s) ==
  IF s # <<>> /\ s[Len(s)] = " " THEN TrimEnd(SubSeq(s, 1, Len(s) - 1)) ELSE s

\* String.prototype.trim
Trim(s) == TrimEnd(SkipSpaces(s))

\* reply.replace(/<\/?s>/gi, "")
RECURSIVE StripTags(_)
StripTags(s) ==
  IF s = <<>> THEN <<>>
  ELSE IF Head(s) \in {"<s>", "</s>"} THEN StripTags(Tail(s))
  ELSE <<Head(s)>> \o StripTags(Tail(s))

\* Faulty variant: `!message`, without the trim.
InvalidNoTrim(m) == m.kind = "missing" \/ (m.kind = "string" /\ m.text = <<>>)

\* `!message || message.trim() === ""`
Invalid(m) == m.kind = "missing" \/ (m.kind = "string" /\ Trim(m.text) = <<>>)

\* The reply built from the completion.
ReplyOf(c) ==
  LET t == IF c.present THEN Trim(c.text) ELSE <<>>
      first == IF t = <<>> THEN Fallback ELSE t
  IN Trim(StripTags(first))

IdleChat ==
  [pc |-> "idle", message |-> [kind |-> "missing", text |-> <<>>],
   called |-> FALSE, outcome |-> "none", content |-> AbsentQuery,
   statusCode |-> 200, headersSent |-> FALSE, status |-> 0, body |-> <<>>,
   writes |-> 0, threw |-> FALSE, errorBranch |-> FALSE,
   unhandled |-> FALSE]

\* res.status(code)
SetStatus(c, code) == [c EXCEPT !.statusCode = code]

\* res.json(body): sends the response, and throws when one was already sent.
JsonWrite(c, body) ==
  IF c.headersSent
  THEN [c EXCEPT !.writes = @ + 1, !.threw = TRUE]
  ELSE [c EXCEPT !.writes = @ + 1, !.headersSent = TRUE,
                 !.status = c.statusCode, !.body = body]

\* The catch block: res.status(500).json({reply: generic}).  What it throws
\* leaves the async handler as an unhandled rejection.
CatchBlock(c) ==
  LET e == JsonWrite(SetStatus([c EXCEPT !.errorBranch = TRUE,
                                         !.threw = FALSE], 500),
                     GenericReply)
  IN [e EXCEPT !.unhandled = e.threw]

\* What follows the await in the try block: server.js sends the reply once,
\* the full server of part_000 calls res.json({reply}) at lines 228 and 232.
SendReply(b, c, reply) ==
  LET c1 == JsonWrite(c, reply)
  IN IF b = "part_000" /\ ~c1.threw THEN JsonWrite(c1, reply) ELSE c1

\* The handler up to the await: validation, then the upstream call.  A
\* truthy message that is no string has no trim(): the TypeError is caught.
ChatStart(m) ==
  /\ chat.pc = "idle"
  /\ LET c == [chat EXCEPT !.message = m]
     IN chat' =
          IF m.kind = "other"
          THEN [CatchBlock(c) EXCEPT !.pc = "done"]
          ELSE IF Invalid(m)
          THEN [JsonWrite(SetStatus(c, 400), ValidationReply)
                  EXCEPT !.pc = "done"]
          ELSE [c EXCEPT !.pc = "awaiting", !.called = TRUE]
  /\ UNCHANGED <<build, hwm, dl, sent, up, chunks, ping>>

\* The completion arrives.
ChatResolve(content) ==
  /\ chat.pc = "awaiting"
  /\ LET c == [chat EXCEPT !.outcome = "resolved", !.content = content]
         c1 == SendReply(build, c, ReplyOf(content))
         c2 == IF c1.threw THEN CatchBlock(c1) ELSE c1
     IN chat' = [c2 EXCEPT !.pc = "done"]
  /\ UNCHANGED <<build, hwm, dl, sent, up, chunks, ping>>

\* The upstream call fails.
ChatReject ==
  /\ chat.pc = "awaiting"
  /\ chat' = [CatchBlock([chat EXCEPT !.outcome = "rejected"])
                EXCEPT !.pc = "done"]
  /\ UNCHANGED <<build, hwm, dl, sent, up, chunks, ping>>

\* ----------------------------------------------------- GET /api/speedtest/ping
IdlePing ==
  [pc |-> "idle", k |-> 0, fired |-> FALSE, answered |-> FALSE,
   message |-> "", latency |-> <<0, 0>>]

\* Faulty variant: `Math.random() * 50`, the base forgotten.
LatencyNumNoBase(k) == PingSpread * k

\* `Math.random() * 50 + 10` for the draw k / RandSteps, as the exact
\* fraction LatencyNum(k) / RandSteps.
LatencyNum(k) == PingSpread * k + PingBase * RandSteps

\* The handler up to the await: draw the latency and set the timer.
PingStart(k) ==
  /\ build = "part_000"
  /\ ping.pc = "idle"
  /\ ping' = [ping EXCEPT !.pc = "waiting", !.k = k]
  /\ UNCHANGED <<build, hwm, dl, sent, up, chunks, chat>>

\* The timer fires: res.json({message: "pong", latency: toFixed(2)}).
PingTimer ==
  /\ ping.pc = "waiting"
  /\ ping' = [ping EXCEPT !.pc = "done", !.fired = TRUE, !.answered = TRUE,
                          !.message = "pong",
                          !.latency = ToFixed2(LatencyNum(ping.k), RandSteps)]
  /\ UNCHANGED <<build, hwm, dl, sent, up, chunks, chat>>

\* ------------------------------------------------------------ specifications
Init ==
  /\ build \in Builds
  /\ hwm \in HighWaterMarks
  /\ dl = [r \in Requests |-> IdleDownload]
  /\ sent = [r \in Requests |-> 0]
  /\ up = [r \in Requests |-> IdleUpload]
  /\ chunks = [r \in Requests |-> <<>>]
  /\ chat = IdleChat
  /\ ping = IdlePing

SizeChars == {"-", "0", "2", "5", "a"}
SizeQueries ==
  {AbsentQuery} \cup {TextQuery(t) : t \in StringsUpTo(SizeChars, MaxQueryLen)}

StreamChars == {"1", "2"}
StreamQueries ==
  {AbsentQuery}
    \cup {TextQuery(t) : t \in StringsUpTo(StreamChars, MaxStreamQueryLen)}

HintQueries == {AbsentQuery, TextQuery(<<"1">>), TextQuery(<<"2">>)}

\* Sizes of the reads of the client of a download.
ClientReadSizes == {48 * 1024, chunkSize}

\* The size clamp alone.
NextSize == \E q \in SizeQueries : DownloadStart(1, q)
SpecSize == Init /\ [][NextSize]_vars

\* One download.
NextDownload ==
  \/ \E q \in StreamQueries : DownloadStart(1, q)
  \/ DownloadRead(1)
  \/ DownloadPrefetch(1)
  \/ \E k \in ClientReadSizes : ClientRead(1, k)
SpecDownload == Init /\ [][NextDownload]_vars
FairSpecDownload ==
  /\ SpecDownload
  /\ WF_vars(DownloadRead(1))
  /\ WF_vars(\E k \in ClientReadSizes : ClientRead(1, k))

\* One upload.
NextUpload ==
  \/ \E q \in HintQueries : UploadStart(1, q)
  \/ \E len \in UploadChunkSizes : UploadData(1, len)
  \/ UploadEnd(1)
  \/ UploadAbort(1)
SpecUpload == Init /\ [][NextUpload]_vars
FairSpecUpload == SpecUpload /\ WF_vars(NextUpload)

\* One chat request.
NextChat ==
  \/ \E m \in Messages : ChatStart(m)
  \/ \E c \in Contents : ChatResolve(c)
  \/ ChatReject
SpecChat == Init /\ [][NextChat]_vars

\* One ping.
NextPing ==
  \/ ping.pc = "idle" /\ \E k \in 0 .. RandSteps - 1 : PingStart(k)
  \/ PingTimer
SpecPing == Init /\ [][NextPing]_vars

\* Concurrent downloads and uploads, one per slot.
NextConcurrent ==
  \E r \in Requests :
    \/ DownloadStart(r, TextQuery(<<"1">>))
    \/ DownloadRead(r)
    \/ DownloadPrefetch(r)
    \/ ClientRead(r, chunkSize)
    \/ UploadStart(r, AbsentQuery)
    \/ UploadData(r, chunkSize)
    \/ UploadEnd(r)
SpecConcurrent == Init /\ [][NextConcurrent]_vars

Next ==
  \/ NextDownload \/ NextUpload \/ NextChat \/ NextPing \/ NextConcurrent
Spec == Init /\ [][Next]_vars

\* -------------------------------------------------------------- properties
\* The text of q is a whole decimal integer, with an optional minus sign.
IsIntegerText(q) ==
  /\ q.present
  /\ LET t == q.text
         body == IF t # <<>> /\ t[1] = "-" THEN Tail(t) ELSE t
     IN body # <<>> /\ \A i \in 1 .. Len(body) : body[i] \in Digits

\* Bytes handed to the response by 'data' events so far.
Delivered(r) == dl[r].received + dl[r].wire

\* C1: a download of requested size s in 1..200 whose client keeps reading
\* ends, and the chunks handed over before the end add up to s * 1,048,576
\* bytes, all of which the client receives.
C1_ExactLength ==
  /\ [](\A r \in Requests :
          dl[r].pc = "ended" =>
            /\ dl[r].buffer = <<>>
            /\ Delivered(r) = dl[r].sizeMB * 1048576
            /\ LET p == ParseInt(dl[r].query)
               IN (IsIntegerText(dl[r].query) /\ p.val \in 1 .. 200)
                    => Delivered(r) = p.val * 1048576)
  /\ (dl[1].pc = "streaming")
       ~> (dl[1].pc = "ended" /\ dl[1].received = dl[1].sizeMB * 1048576)

C1_Witness ==
  /\ dl[1].pc = "ended" /\ dl[1].wire = 0
  /\ dl[1].query = TextQuery(<<"1", "2">>)
  /\ dl[1].received = 12 * MB

\* C2: an integer `size` below 1 is served as 1 MB and one above 200 as
\* 200 MB; 50 MB is served by default only when `size` is absent.
C2_ClampToNearestBound ==
  \A r \in Requests :
    (dl[r].pc = "streaming" /\ IsIntegerText(dl[r].query)) =>
      LET v == ParseInt(dl[r].query).val
      IN /\ v < 1 => dl[r].sizeMB = 1
         /\ v > 200 => dl[r].sizeMB = 200

\* C3: an upload whose inbound stream fails before its end gets the 500
\* "Upload test failed" response, and never an "ok" response.
C3_AbortGetsFailure ==
  /\ [](up[1].pc = "aborted" => up[1].response.kind # "ok")
  /\ (up[1].pc = "aborted") ~> (up[1].response = UploadFailed)

Blank(m) ==
  \/ m.kind = "missing"
  \/ m.kind = "string" /\ \A i \in 1 .. Len(m.text) : m.text[i] = " "

\* C5: a blank message is answered 400 with the validation reply and no
\* upstream call; a failed upstream call 500 with the generic reply; a
\* successful one 200 with the reply.
C5_ChatStatus ==
  /\ chat.pc # "done" => chat.status = 0
  /\ Blank(chat.message) => ~chat.called
  /\ chat.pc = "done" =>
       /\ Blank(chat.message) =>
            chat.status = 400 /\ chat.body = ValidationReply
       /\ chat.outcome = "rejected" =>
            chat.status = 500 /\ chat.body = GenericReply
       /\ chat.outcome = "resolved" =>
            /\ chat.status = 200
            /\ chat.body \notin {ValidationReply, GenericReply}
            /\ \A i \in 1 .. Len(chat.body) : chat.body[i] \notin {"<s>", "</s>"}

\* The full server relayed a tagged completion without its tags.
C5_Witness ==
  /\ chat.pc = "done" /\ build = "part_000"
  /\ chat.message.text = <<" ", "a">>
  /\ chat.content = TextQuery(<<"<s>", "a">>)
  /\ chat.status = 200 /\ chat.body = <<"a">>

C7_LatencyBelowSixty ==
  ping.answered =>
    /\ Hundredths(ping.latency) >= 1000 /\ Hundredths(ping.latency) < 6000
    /\ ping.message = "pong" /\ ping.fired

\* C7 amended: the reported latency lies in [10.00, 60.00]; "60.00" is
\* reported for a delay of 59.995 ms or more.
C7_LatencyAtMostSixty ==
  /\ ping.answered =>
       /\ Hundredths(ping.latency) >= 1000 /\ Hundredths(ping.latency) <= 6000
       /\ ping.latency[2] \in 0 .. 99
       /\ ping.message = "pong" /\ ping.fired
  /\ ping.pc # "done" => ~ping.answered

C7_Witness == ping.answered /\ ping.latency = <<60, 0>>

\* C8: 0 <= sent <= totalBytes; every chunk pushed has length
\* min(131072, totalBytes - sent) > 0; the end is signalled only at
\* sent = totalBytes, and nothing is pushed after it.
C8_SentInvariant ==
  /\ [](\A r \in Requests :
          /\ 0 <= sent[r] /\ sent[r] <= dl[r].totalBytes
          /\ (dl[r].ended \/ dl[r].pc = "ended") => sent[r] = dl[r].totalBytes
          /\ \A i \in 1 .. Len(dl[r].buffer) : dl[r].buffer[i] > 0)
  /\ [][\A r \in Requests :
          /\ sent'[r] # sent[r] =>
               LET rem == dl[r].totalBytes - sent[r]
               IN sent'[r] - sent[r] = (IF rem < 131072 THEN rem ELSE 131072)
          /\ dl[r].ended =>
               /\ sent'[r] = sent[r]
               /\ Len(dl'[r].buffer) <= Len(dl[r].buffer)
               /\ Delivered(r)' + BufferedBytes(r)' =
                    Delivered(r) + BufferedBytes(r)]_vars

\* The end of a 2 MB body was signalled while the stream was paused.
C8_Witness ==
  /\ dl[1].pc = "streaming" /\ dl[1].ended /\ ~dl[1].flowing
  /\ dl[1].sizeMB = 2 /\ sent[1] = 2 * MB

\* What slot r holds.
Slot(r) == <<dl[r], sent[r], up[r], chunks[r]>>

\* C9: a step changes the state of one request only, each download delivers
\* its own length and each upload reports its own byte count.
C9_NoSharedState ==
  /\ [](\A r \in Requests :
          /\ dl[r].pc = "ended" => Delivered(r) = dl[r].sizeMB * 1048576
          /\ dl[r].pc # "idle" =>
               Delivered(r) + BufferedBytes(r) = sent[r]
          /\ up[r].pc = "responded" =>
               /\ up[r].response.kind = "ok"
               /\ Hundredths(up[r].response.receivedMB) * 1048576
                    = 100 * up[r].arrived + 524288 - ((100 * up[r].arrived + 524288) % 1048576))
  /\ [][\A r1, r2 \in Requests :
          (Slot(r1)' # Slot(r1) /\ Slot(r2)' # Slot(r2)) => r1 = r2]_vars

\* Two downloads are under way at different offsets while another finished,
\* or a download and an upload are both under way.
C9_Witness ==
  \E r1, r2 \in Requests :
    /\ r1 # r2
    /\ dl[r1].pc = "streaming" /\ sent[r1] = 3 * chunkSize
    /\ \/ dl[r2].pc = "ended" /\ dl[r2].received = MB
       \/ up[r2].pc = "responded" /\ up[r2].arrived = 2 * chunkSize

\* C10: a chat request writes its response exactly once, and after a
\* successful completion never enters the catch block.
C10_SingleWrite ==
  chat.pc = "done" =>
    /\ chat.writes = 1
    /\ chat.outcome = "resolved" => ~chat.errorBranch /\ ~chat.unhandled

====
